---------------------------- MODULE Spec2Model ----------------------------
(***************************************************************************)
(* Identity and credential subsystem of the user-account service:          *)
(*   - User entity: hashPassword pre-persist hook, comparePassword         *)
(*   - isAuthenticated middleware (bearer token -> req.user)               *)
(*   - Google OAuth verify callback (find by email, link or create)        *)
(*   - updateUserProfile and updateUserRole controllers                    *)
(* Strings whose characters the code inspects (passwords, Authorization    *)
(* headers) are sequences of one-character strings.  An optional value is  *)
(* a sequence of length 0 or 1.  Every await is a scheduling point: an     *)
(* action is the synchronous code up to an await together with the         *)
(* repository call awaited there.                                          *)
(***************************************************************************)
EXTENDS Integers, Sequences, FiniteSets, TLC

VARIABLES users, req, cb, cred

vars == <<users, req, cb, cred>>

(***************************************************************************)
(* Bounds of the model.                                                    *)
(***************************************************************************)
MaxPwLen == 4
NumRequests == 2
NumCallbacks == 2

None == <<>>
Some(x) == <<x>>
Undefined == "undefined"

\* JavaScript truthiness of a string-or-undefined value.
Truthy(s) == s # Undefined /\ s # ""

(***************************************************************************)
(* Credential store: User.hashPassword / User.comparePassword.             *)
(***************************************************************************)
PwChars == {"$", "2", "a", "x"}
Passwords == UNION {[1..n -> PwChars] : n \in 0..MaxPwLen}
Salts == {<<"s">>, <<"t">>}

StartsWith(s, p) == Len(s) >= Len(p) /\ SubSeq(s, 1, Len(p)) = p

\* /^\$2[aby]\$/.test(s)
LooksHashed(s) ==
    /\ Len(s) >= 4
    /\ s[1] = "$"
    /\ s[2] = "2"
    /\ s[3] \in {"a", "b", "y"}
    /\ s[4] = "$"

\* The digest part of a bcrypt hash: an idealised (collision-free) one-way
\* function of the plaintext and the salt, written in its own alphabet.
DigestChar(c) ==
    CASE c = "$" -> "D"
      [] c = "2" -> "T"
      [] c = "a" -> "A"
      [] c = "b" -> "B"
      [] c = "y" -> "Y"
      [] OTHER -> "X"

Digest(plain, salt) ==
    <<"#">> \o salt \o [i \in 1..Len(plain) |-> DigestChar(plain[i])] \o <<"#">>

HashHeader(minor) == <<"$", "2", minor, "$", "1", "2", "$">>

\* bcrypt.hash(plain, 12) with the salt the library drew.
BcryptHash(plain, salt) == HashHeader("b") \o salt \o Digest(plain, salt)

\* bcrypt.compare(candidate, stored): false for a stored value that is not a
\* well-formed hash, else the hash of the candidate under the stored salt.
BcryptCompare(candidate, stored) ==
    /\ LooksHashed(stored)
    /\ \E salt \in Salts :
          stored = HashHeader(stored[3]) \o salt \o Digest(candidate, salt)

\* hashPassword(): the value of this.password after the hook.
HashPassword(password, salt) ==
    IF password # <<>> /\ ~LooksHashed(password)
    THEN BcryptHash(password, salt)
    ELSE password

\* comparePassword(candidate) on an entity whose password field is `password`.
ComparePassword(password, candidate) ==
    IF password = <<>> THEN FALSE ELSE BcryptCompare(candidate, password)

CredInit == [pc |-> "new", plain |-> <<>>, password |-> <<>>,
             candidate |-> <<>>, result |-> FALSE]

\* user.password = P on a fresh entity.
SetPassword(P) ==
    /\ cred.pc = "new"
    /\ cred' = [cred EXCEPT !.pc = "assigned", !.plain = P, !.password = P]
    /\ UNCHANGED <<users, req, cb>>

\* The @BeforeInsert/@BeforeUpdate hook, run by the repository's save.
PersistPassword ==
    /\ cred.pc = "assigned"
    /\ \E salt \in Salts :
          cred' = [cred EXCEPT !.pc = "persisted",
                               !.password = HashPassword(cred.password, salt)]
    /\ UNCHANGED <<users, req, cb>>

\* user.comparePassword(candidate)
CheckPassword(candidate) ==
    /\ cred.pc = "persisted"
    /\ candidate \in {cred.plain, cred.password, <<>>, <<"x">>}
    /\ cred' = [cred EXCEPT !.pc = "compared", !.candidate = candidate,
                            !.result = ComparePassword(cred.password, candidate)]
    /\ UNCHANGED <<users, req, cb>>

InitCred ==
    /\ cred = CredInit
    /\ users = <<>>
    /\ req = <<>>
    /\ cb = <<>>

NextCred ==
    \/ \E P \in Passwords : SetPassword(P)
    \/ PersistPassword
    \/ \E c \in Passwords : CheckPassword(c)

SpecCred == InitCred /\ [][NextCred]_vars

(***************************************************************************)
(* The user store (AppDataSource.getRepository(User)).                     *)
(***************************************************************************)
USER == "user"
ADMIN == "admin"
UserRoleValues == {USER, ADMIN}

GOOGLE == "google"

UserIdOf(n) ==
    CASE n = 1 -> "u1"
      [] n = 2 -> "u2"
      [] n = 3 -> "u3"
      [] n = 4 -> "u4"
      [] n = 5 -> "u5"
      [] OTHER -> "u6"

EmailA == <<"a", "@", "x">>
EmailB == <<"b", "@", "x">>
EmailC == <<"c", "@", "x">>

\* Rows the service starts from: two password-registered accounts.
InitUsers ==
    { << [userId |-> "u1", email |-> EmailA, name |-> <<"A", "n", "n">>, role |-> ADMIN,
          avatar |-> Undefined, isEmailVerified |-> FALSE,
          oauthProviders |-> <<>>, updatedAt |-> 0],
         [userId |-> "u2", email |-> EmailB, name |-> <<"B", "o", "b">>, role |-> r2,
          avatar |-> "b.png", isEmailVerified |-> FALSE,
          oauthProviders |-> <<>>, updatedAt |-> 0] >> :
      r2 \in UserRoleValues }

MinOf(S) == CHOOSE x \in S : \A y \in S : x <= y

\* repository.findOne({ where: { userId } })
FindById(store, id) ==
    LET hit == {i \in 1..Len(store) : store[i].userId = id}
    IN  IF hit = {} THEN None ELSE Some(store[MinOf(hit)])

\* repository.findOne({ where: { email } })
FindByEmail(store, email) ==
    LET hit == {i \in 1..Len(store) : store[i].email = email}
    IN  IF hit = {} THEN None ELSE Some(store[MinOf(hit)])

\* The columns of a row other than its update timestamp.
Columns(row) == [row EXCEPT !.updatedAt = 0]

\* repository.save(entity) of a loaded entity: the row takes the entity's
\* column values; a save that changes no column issues no UPDATE and leaves
\* the @UpdateDateColumn alone.
SaveEntity(store, e) ==
    LET hit == {i \in 1..Len(store) : store[i].userId = e.userId}
        i == MinOf(hit)
    IN  IF hit = {} \/ Columns(store[i]) = Columns(e) THEN store
        ELSE [store EXCEPT ![i] = [e EXCEPT !.updatedAt = store[i].updatedAt + 1]]

\* The unique index on users.email (@Column({ unique: true })).
EmailTaken(store, email) == \E i \in 1..Len(store) : store[i].email = email

\* repository.save(newUser) of a created entity: an INSERT with a generated
\* userId.  The caller has checked EmailTaken.
InsertEntity(store, e) ==
    Append(store, [e EXCEPT !.userId = UserIdOf(Len(store) + 1), !.updatedAt = 0])

(***************************************************************************)
(* Bearer tokens and Authorization headers.                                *)
(***************************************************************************)
Bearer == <<"B", "e", "a", "r", "e", "r">>
Space == <<" ">>

\* Token strings.  Those jwt.verify knows are listed in JwtTable; any other
\* string does not decode.
TokU1 == <<"t", "1">>
TokU2 == <<"t", "2">>
TokGone == <<"t", "9">>
TokNoId == <<"t", "n">>
TokEmptyId == <<"t", "e">>
TokExpired == <<"t", "x">>
TokBadSig == <<"t", "b">>
TokGarbage == <<"z", "z">>

\* What a decodable token holds: whether its signature matches JWT_SECRET,
\* whether its exp claim lies in the past, and its userId claim.
JwtTable(token) ==
    CASE token = TokU1      -> Some([sig |-> TRUE,  expired |-> FALSE, userId |-> "u1"])
      [] token = TokU2      -> Some([sig |-> TRUE,  expired |-> FALSE, userId |-> "u2"])
      [] token = TokGone    -> Some([sig |-> TRUE,  expired |-> FALSE, userId |-> "u9"])
      [] token = TokNoId    -> Some([sig |-> TRUE,  expired |-> FALSE, userId |-> Undefined])
      [] token = TokEmptyId -> Some([sig |-> TRUE,  expired |-> FALSE, userId |-> ""])
      [] token = TokExpired -> Some([sig |-> TRUE,  expired |-> TRUE,  userId |-> "u1"])
      [] token = TokBadSig  -> Some([sig |-> FALSE, expired |-> FALSE, userId |-> "u1"])
      [] OTHER -> None

\* jwt.verify(token, secret): the decoded payload, or the class of the error
\* thrown.  TokenExpiredError is a subclass of JsonWebTokenError.
JwtVerify(token) ==
    LET t == JwtTable(token)
    IN  IF t = None THEN [ok |-> FALSE, error |-> "JsonWebTokenError", userId |-> Undefined]
        ELSE IF ~t[1].sig THEN [ok |-> FALSE, error |-> "JsonWebTokenError", userId |-> Undefined]
        ELSE IF t[1].expired THEN [ok |-> FALSE, error |-> "TokenExpiredError", userId |-> Undefined]
        ELSE [ok |-> TRUE, error |-> "", userId |-> t[1].userId]

IsJsonWebTokenError(e) == e \in {"JsonWebTokenError", "TokenExpiredError", "NotBeforeError"}

\* s.split(sep): the pieces of s between occurrences of the character sep.
RECURSIVE SplitFrom(_, _, _, _)
SplitFrom(s, sep, i, cur) ==
    IF i > Len(s) THEN <<cur>>
    ELSE IF s[i] = sep THEN <<cur>> \o SplitFrom(s, sep, i + 1, <<>>)
    ELSE SplitFrom(s, sep, i + 1, Append(cur, s[i]))

Split(s, sep) == SplitFrom(s, sep, 1, <<>>)

\* Authorization headers a client may send; None is a request without one.
AllHeaders ==
    { None,
      Some(<<>>),
      Some(<<"B", "a", "s", "i", "c">> \o Space \o TokU1),
      Some(<<"b", "e", "a", "r", "e", "r">> \o Space \o TokU1),
      Some(Bearer \o TokU1),
      Some(TokU1),
      Some(Bearer \o Space),
      Some(Bearer \o Space \o Space \o TokU1),
      Some(Bearer \o Space \o TokU1 \o Space \o TokGarbage) }
    \cup { Some(Bearer \o Space \o t) :
             t \in {TokU1, TokU2, TokGone, TokNoId, TokEmptyId, TokExpired,
                    TokBadSig, TokGarbage} }

\* Headers of clients holding a token the service issued to a stored user.
IssuedHeaders == { Some(Bearer \o Space \o t) : t \in {TokU1, TokU2} }

(***************************************************************************)
(* Requests carrying a bearer token: isAuthenticated, then a controller.   *)
(***************************************************************************)
Requests == 1..NumRequests

\* A request: its place in the pipeline, its Authorization header, req.user,
\* the entity its current handler loaded, the controller's params.id and
\* body.role, the role of req.user as updateUserRole received it, the
\* arguments next() was called with, the controller's repository calls, and
\* the response or error it ended with.
ReqInit == [pc |-> "idle", header |-> None, user |-> None, ent |-> None,
            target |-> "", role |-> "", actor |-> "", forwarded |-> <<>>,
            ops |-> <<>>, result |-> ""]

\* The request once its controller has responded or thrown: the handler's
\* locals and req.user are gone; what was asked and answered is kept.
Finish(q, result, ops) ==
    [q EXCEPT !.pc = "done", !.user = None, !.ent = None,
              !.result = result, !.ops = ops]

\* isAuthenticated, lines 15-30: what the synchronous prefix throws, or the
\* userId claim it goes on to look up.
AuthCheckMutEnvelope(header) ==
    IF header = None \/ header[1] = <<>>
    THEN [thrown |-> "ApiError", kind |-> "Unauthorized", userId |-> Undefined]
    ELSE IF ~StartsWith(header[1], Bearer \o Space) \/ Split(header[1], " ")[2] = <<>>
    THEN [thrown |-> "ApiError", kind |-> "AuthTokenInvalid", userId |-> Undefined]
    ELSE
        LET decoded == JwtVerify(Split(header[1], " ")[2])
        IN  IF ~decoded.ok
            THEN [thrown |-> decoded.error, kind |-> "", userId |-> Undefined]
            ELSE IF ~Truthy(decoded.userId)
            THEN [thrown |-> "ApiError", kind |-> "AuthTokenInvalid", userId |-> Undefined]
            ELSE [thrown |-> "", kind |-> "", userId |-> decoded.userId]

AuthCheck(header) ==
    IF header = None \/ header[1] = <<>> \/ ~StartsWith(header[1], Bearer \o Space)
    THEN [thrown |-> "ApiError", kind |-> "Unauthorized", userId |-> Undefined]
    ELSE IF Split(header[1], " ")[2] = <<>>
    THEN [thrown |-> "ApiError", kind |-> "Unauthorized", userId |-> Undefined]
    ELSE
        LET decoded == JwtVerify(Split(header[1], " ")[2])
        IN  IF ~decoded.ok
            THEN [thrown |-> decoded.error, kind |-> "", userId |-> Undefined]
            ELSE IF ~Truthy(decoded.userId)
            THEN [thrown |-> "ApiError", kind |-> "AuthTokenInvalid", userId |-> Undefined]
            ELSE [thrown |-> "", kind |-> "", userId |-> decoded.userId]

\* isAuthenticated, lines 49-54: the error the catch block hands to next().
AuthCatch(thrown, kind) ==
    IF IsJsonWebTokenError(thrown) THEN "AuthTokenInvalid" ELSE kind

\* req.user as isAuthenticated builds it from the loaded entity.
IdentityOfMutNoRole(user) ==
    [userId |-> user.userId, role |-> USER, email |-> user.email,
     name |-> user.name, isEmailVerified |-> user.isEmailVerified]

IdentityOf(user) ==
    [userId |-> user.userId, role |-> user.role, email |-> user.email,
     name |-> user.name, isEmailVerified |-> user.isEmailVerified]

\* isAuthenticated up to `await userRepository.findOne(...)`.
AuthVerify(r, header) ==
    /\ req[r].pc = "idle"
    /\ IF r = 1 THEN TRUE ELSE req[r - 1].pc # "idle"
    /\ LET c == AuthCheck(header)
       IN  IF c.thrown # ""
           THEN req' = [req EXCEPT ![r].pc = "failed", ![r].header = header,
                            ![r].forwarded = Append(@, AuthCatch(c.thrown, c.kind)),
                            ![r].result = AuthCatch(c.thrown, c.kind)]
           ELSE req' = [req EXCEPT ![r].pc = "authFound", ![r].header = header,
                            ![r].ent = FindById(users, c.userId)]
    /\ UNCHANGED <<users, cb, cred>>

\* isAuthenticated after the findOne: lines 35-48.
AuthBind(r) ==
    /\ req[r].pc = "authFound"
    /\ IF req[r].ent = None
       THEN req' = [req EXCEPT ![r].pc = "failed",
                        ![r].forwarded = Append(@, AuthCatch("ApiError", "NotFound")),
                        ![r].result = AuthCatch("ApiError", "NotFound")]
       ELSE req' = [req EXCEPT ![r].pc = "authed",
                        ![r].user = Some(IdentityOf(req[r].ent[1])),
                        ![r].ent = None,
                        ![r].forwarded = Append(@, "next")]
    /\ UNCHANGED <<users, cb, cred>>

(***************************************************************************)
(* updateUserRole (PATCH /users/:id/role).                                 *)
(***************************************************************************)
RoleInputs == {"", USER, ADMIN, "superuser"}
TargetInputs == {"u1", "u2", "u9"}

\* updateUserRole, lines 204-226: the validation error, or "" to go on.
RoleValidateMutNoSelfCheck(actor, targetUserId, role) ==
    IF actor = None THEN "Unauthorized"
    ELSE IF ~Truthy(role) THEN "DataInvalid"
    ELSE IF role \notin UserRoleValues THEN "DataInvalid"
    ELSE ""

RoleValidate(actor, targetUserId, role) ==
    IF actor = None THEN "Unauthorized"
    ELSE IF ~Truthy(role) THEN "DataInvalid"
    ELSE IF role \notin UserRoleValues THEN "DataInvalid"
    ELSE IF actor[1].userId = targetUserId /\ role = USER THEN "DataInvalid"
    ELSE ""

\* updateUserRole up to `await userRepository.findOne(...)`.
RoleCheck(r, targetUserId, role) ==
    /\ req[r].pc = "authed"
    /\ LET err == RoleValidate(req[r].user, targetUserId, role)
       IN  IF err # ""
           THEN req' = [req EXCEPT ![r] = Finish([req[r] EXCEPT !.target = targetUserId,
                                                               !.role = role,
                                                               !.actor = req[r].user[1].role],
                                                err, <<>>)]
           ELSE req' = [req EXCEPT ![r].pc = "roleFound", ![r].target = targetUserId,
                            ![r].role = role, ![r].actor = req[r].user[1].role,
                            ![r].ops = <<"findOne">>,
                            ![r].ent = FindById(users, targetUserId)]
    /\ UNCHANGED <<users, cb, cred>>

\* updateUserRole after the findOne without the `user.role === role`
\* short-circuit of lines 236-242: it always assigns and saves.
RoleSaveMutAlwaysSave(r) ==
    /\ req[r].pc = "roleFound"
    /\ IF req[r].ent = None
       THEN /\ req' = [req EXCEPT ![r] = Finish(req[r], "NotFound", req[r].ops)]
            /\ users' = users
       ELSE /\ req' = [req EXCEPT ![r].pc = "roleSaved",
                                  ![r].ops = Append(req[r].ops, "save"),
                                  ![r].ent = Some([req[r].ent[1] EXCEPT !.role = req[r].role])]
            /\ users' = SaveEntity(users, [req[r].ent[1] EXCEPT !.role = req[r].role])
    /\ UNCHANGED <<cb, cred>>

\* updateUserRole after the findOne, up to `await userRepository.save(user)`:
\* lines 231-246.  The not-found and unchanged paths answer at once.
RoleSave(r) ==
    /\ req[r].pc = "roleFound"
    /\ IF req[r].ent = None
       THEN /\ req' = [req EXCEPT ![r] = Finish(req[r], "NotFound", req[r].ops)]
            /\ users' = users
       ELSE IF req[r].ent[1].role = req[r].role
       THEN /\ req' = [req EXCEPT ![r] = Finish(req[r], "unchanged", req[r].ops)]
            /\ users' = users
       ELSE /\ req' = [req EXCEPT ![r].pc = "roleSaved",
                                  ![r].ops = Append(req[r].ops, "save"),
                                  ![r].ent = Some([req[r].ent[1] EXCEPT !.role = req[r].role])]
            /\ users' = SaveEntity(users, [req[r].ent[1] EXCEPT !.role = req[r].role])
    /\ UNCHANGED <<cb, cred>>

\* updateUserRole after the save: the response of lines 248-252.
RoleRespond(r) ==
    /\ req[r].pc = "roleSaved"
    /\ req' = [req EXCEPT ![r] = Finish(req[r], "updated", req[r].ops)]
    /\ UNCHANGED <<users, cb, cred>>

(***************************************************************************)
(* updateUserProfile.                                                      *)
(***************************************************************************)
\* req.body.name: absent, or a new name.
NameInputs == {None, Some(<<"Z", "e", "d">>)}
\* req.body.birthday and req.body.gender; "null" is the JSON null and
\* "number" a gender that is not a string.
ProfileBodies ==
    {[birthday |-> Undefined, gender |-> Undefined],
     [birthday |-> "null", gender |-> "null"],
     [birthday |-> "2000-01-31", gender |-> "male"],
     [birthday |-> "2000-01-31", gender |-> "nan"],
     [birthday |-> " ", gender |-> Undefined],
     [birthday |-> "soon", gender |-> Undefined],
     [birthday |-> Undefined, gender |-> ""],
     [birthday |-> Undefined, gender |-> "other-kind"],
     [birthday |-> Undefined, gender |-> "constructor"],
     [birthday |-> Undefined, gender |-> "number"]}

\* isNaN(new Date(s).getTime()) is false
IsValidDate(s) == s \in {"2000-01-31"}

\* s.trim() === ''
IsBlank(s) == s \in {"", " "}

\* The property names every object literal inherits from Object.prototype;
\* a lookup of one of them in chineseToGenderMap gives a function or object.
ObjectPrototypeKeys ==
    {"constructor", "hasOwnProperty", "isPrototypeOf", "propertyIsEnumerable",
     "toLocaleString", "toString", "valueOf", "__proto__", "__defineGetter__",
     "__defineSetter__", "__lookupGetter__", "__lookupSetter__"}

\* toEnglishGender(s) for a string s; "nan" stands for the label of
\* Gender.MALE in chineseToGenderMap.  "inherited" is the truthy value found
\* under a key of Object.prototype.
ToEnglishGender(s) ==
    IF s \in {"male", "female", "other"} THEN s
    ELSE IF s = "nan" THEN "male"
    ELSE IF s = "nu" THEN "female"
    ELSE IF s = "qita" THEN "other"
    ELSE IF s \in ObjectPrototypeKeys THEN "inherited"
    ELSE Undefined

\* updateUserProfile, lines 121-145: the validation error, or "".
ProfileValidate(birthday, gender) ==
    IF birthday # Undefined /\ birthday # "null" /\ IsBlank(birthday) THEN "DataInvalid"
    ELSE IF birthday # Undefined /\ birthday # "null" /\ ~IsValidDate(birthday) THEN "DataInvalid"
    ELSE IF gender \in {Undefined, "null"} THEN ""
    ELSE IF gender = "number" THEN "DataInvalid"
    ELSE IF IsBlank(gender) THEN "DataInvalid"
    ELSE IF ToEnglishGender(gender) = Undefined THEN "DataInvalid"
    ELSE ""

\* updateUserProfile up to `await userRepository.findOne(...)`.
ProfileRead(r) ==
    /\ req[r].pc = "authed"
    /\ req' = [req EXCEPT ![r].pc = "profileFound", ![r].ops = <<"findOne">>,
                    ![r].ent = FindById(users, req[r].user[1].userId)]
    /\ UNCHANGED <<users, cb, cred>>

\* The entity updateUserProfile saves: only `name` is copied from the body.
ProfileEntity(user, name) ==
    IF name # None THEN [user EXCEPT !.name = name[1]] ELSE user

\* updateUserProfile after the findOne, up to `await userRepository.save(user)`:
\* lines 115-147.
ProfileSave(r, name, birthday, gender) ==
    /\ req[r].pc = "profileFound"
    /\ IF req[r].ent = None
       THEN /\ req' = [req EXCEPT ![r] = Finish(req[r], "NotFound", req[r].ops)]
            /\ users' = users
       ELSE IF ProfileValidate(birthday, gender) # ""
       THEN /\ req' = [req EXCEPT ![r] = Finish(req[r], ProfileValidate(birthday, gender),
                                                req[r].ops)]
            /\ users' = users
       ELSE /\ req' = [req EXCEPT ![r].pc = "profileSaved",
                                  ![r].ops = Append(req[r].ops, "save")]
            /\ users' = SaveEntity(users, ProfileEntity(req[r].ent[1], name))
    /\ UNCHANGED <<cb, cred>>

\* updateUserProfile after the save: the second findOne, lines 149-154.
ProfileReload(r) ==
    /\ req[r].pc = "profileSaved"
    /\ req' = [req EXCEPT ![r].pc = "profileReloaded",
                          ![r].ops = Append(req[r].ops, "findOne"),
                          ![r].ent = FindById(users, req[r].user[1].userId)]
    /\ UNCHANGED <<users, cb, cred>>

\* updateUserProfile after the second findOne: the response of lines 156-171.
ProfileRespond(r) ==
    /\ req[r].pc = "profileReloaded"
    /\ req' = [req EXCEPT ![r] =
                  Finish(req[r],
                         IF req[r].ent = None THEN "SystemError" ELSE "profileUpdated",
                         req[r].ops)]
    /\ UNCHANGED <<users, cb, cred>>

(***************************************************************************)
(* Google OAuth verify callback.                                           *)
(***************************************************************************)
Callbacks == 1..NumCallbacks

TokenLifetimeMs == 3600000

GoogleIds == {Undefined, "g123", "g456"}
ProfileEmails == {None, Some(EmailA), Some(EmailC)}
\* The rest of a Google profile: photos[0].value and displayName.
ProfileInputs == {[photo |-> Undefined, displayName |-> <<>>],
                  [photo |-> "g.png", displayName |-> <<"C", "y">>]}
\* The token material of a login and the Date.now() it is handled at.
LoginInputs == {[accessToken |-> "at1", refreshToken |-> Undefined, now |-> 1000],
                [accessToken |-> "at2", refreshToken |-> "rt2", now |-> 2000]}

\* A callback: its place, profile.id, profile.emails[0].value, the entity it
\* loaded, the branch it took and how done() was called.
CbInit == [pc |-> "idle", googleId |-> Undefined, email |-> <<>>, ent |-> None,
           branch |-> "", result |-> ""]

\* The link built from this login's token material.
NewLink(googleId, tok) ==
    [provider |-> GOOGLE, providerId |-> googleId, accessToken |-> tok.accessToken,
     refreshToken |-> tok.refreshToken, tokenExpiresAt |-> tok.now + TokenLifetimeMs]

\* user.oauthProviders.find(p => p.provider === 'google'): its index, or 0.
FindProvider(links, provider) ==
    LET hit == {i \in 1..Len(links) : links[i].provider = provider}
    IN  IF hit = {} THEN 0 ELSE MinOf(hit)

\* Lines 57-72: the entity after the existing-provider branch.
RefreshLinkMutKeepProviderId(user, googleId, tok, avatarUrl) ==
    LET i == FindProvider(user.oauthProviders, GOOGLE)
    IN  [user EXCEPT
           !.oauthProviders[i] =
              [NewLink(googleId, tok) EXCEPT !.providerId = user.oauthProviders[i].providerId],
           !.avatar = IF Truthy(avatarUrl) /\ ~Truthy(user.avatar) THEN avatarUrl ELSE @]

RefreshLinkMutRename(user, googleId, tok, avatarUrl) ==
    LET i == FindProvider(user.oauthProviders, GOOGLE)
    IN  [user EXCEPT
           !.oauthProviders[i] = NewLink(googleId, tok),
           !.name = <<"g">>,
           !.avatar = IF Truthy(avatarUrl) /\ ~Truthy(user.avatar) THEN avatarUrl ELSE @]

RefreshLink(user, googleId, tok, avatarUrl) ==
    LET i == FindProvider(user.oauthProviders, GOOGLE)
    IN  [user EXCEPT
           !.oauthProviders[i] = NewLink(googleId, tok),
           !.avatar = IF Truthy(avatarUrl) /\ ~Truthy(user.avatar) THEN avatarUrl ELSE @]

\* Lines 74-87: the entity after the append branch.
AppendLinkMutNoVerify(user, googleId, tok, avatarUrl) ==
    [user EXCEPT
       !.oauthProviders = Append(@, NewLink(googleId, tok)),
       !.avatar = IF Truthy(avatarUrl) /\ ~Truthy(user.avatar) THEN avatarUrl ELSE @]

AppendLink(user, googleId, tok, avatarUrl) ==
    [user EXCEPT
       !.oauthProviders = Append(@, NewLink(googleId, tok)),
       !.avatar = IF Truthy(avatarUrl) /\ ~Truthy(user.avatar) THEN avatarUrl ELSE @,
       !.isEmailVerified = TRUE]

\* Lines 91-104: userRepository.create({...}).
NewUser(email, googleId, tok, avatarUrl, displayName) ==
    [userId |-> Undefined, email |-> email,
     name |-> IF displayName # <<>> THEN displayName ELSE Split(email, "@")[1],
     role |-> USER, avatar |-> avatarUrl, isEmailVerified |-> TRUE,
     oauthProviders |-> <<NewLink(googleId, tok)>>, updatedAt |-> 0]

\* Lines 53-88: the entity an existing user's login saves.
LinkedEntityMutAlwaysAppend(user, googleId, tok, avatarUrl) ==
    AppendLink(user, googleId, tok, avatarUrl)

LinkedEntity(user, googleId, tok, avatarUrl) ==
    IF FindProvider(user.oauthProviders, GOOGLE) # 0
    THEN RefreshLink(user, googleId, tok, avatarUrl)
    ELSE AppendLink(user, googleId, tok, avatarUrl)

\* The callback up to `await userRepository.findOne({ where: { email } })`.
CbLookup(c, googleId, email) ==
    /\ cb[c].pc = "idle"
    /\ IF c = 1 THEN TRUE ELSE cb[c - 1].pc # "idle"
    /\ IF ~Truthy(googleId)
       THEN cb' = [cb EXCEPT ![c].pc = "done", ![c].result = "NoProfileId"]
       ELSE IF email = None \/ email[1] = <<>>
       THEN cb' = [cb EXCEPT ![c].pc = "done", ![c].result = "NoProfileEmail"]
       ELSE cb' = [cb EXCEPT ![c].pc = "found", ![c].googleId = googleId,
                        ![c].email = email[1],
                        ![c].ent = FindByEmail(users, email[1])]
    /\ UNCHANGED <<users, req, cred>>

\* The callback after the findOne, up to the save it awaits: lines 53-105.
\* A save that throws leaves the callback in its catch block.
CbSave(c, tok, avatarUrl, displayName) ==
    /\ cb[c].pc = "found"
    /\ IF cb[c].ent # None
       THEN /\ users' = SaveEntity(users, LinkedEntity(cb[c].ent[1], cb[c].googleId,
                                                      tok, avatarUrl))
            /\ cb' = [cb EXCEPT ![c].pc = "saved",
                            ![c].ent = Some(LinkedEntity(cb[c].ent[1], cb[c].googleId,
                                                         tok, avatarUrl)),
                            ![c].branch =
                               IF FindProvider(cb[c].ent[1].oauthProviders, GOOGLE) # 0
                               THEN "refreshed" ELSE "appended"]
       ELSE IF EmailTaken(users, cb[c].email)
       THEN /\ users' = users
            /\ cb' = [cb EXCEPT ![c].pc = "saveFailed", ![c].branch = "created"]
       ELSE /\ users' = InsertEntity(users, NewUser(cb[c].email, cb[c].googleId, tok,
                                                    avatarUrl, displayName))
            /\ cb' = [cb EXCEPT ![c].pc = "saved", ![c].branch = "created",
                            ![c].ent = Some(InsertEntity(users,
                                               NewUser(cb[c].email, cb[c].googleId, tok,
                                                       avatarUrl, displayName))[Len(users) + 1])]
    /\ UNCHANGED <<req, cred>>

\* The callback after the save: done(null, userData) of lines 108-122, or
\* done(err) of the catch block, lines 123-126.
CbDone(c) ==
    /\ cb[c].pc \in {"saved", "saveFailed"}
    /\ cb' = [cb EXCEPT ![c].pc = "done", ![c].ent = None,
                        ![c].result = IF cb[c].pc = "saved" THEN "ok" ELSE "QueryFailed"]
    /\ UNCHANGED <<users, req, cred>>

(***************************************************************************)
(* Specifications.                                                         *)
(***************************************************************************)
Init ==
    /\ users \in InitUsers
    /\ req = [r \in Requests |-> ReqInit]
    /\ cb = [c \in Callbacks |-> CbInit]
    /\ cred = CredInit

\* Google logins, interleaved at every await.
NextOAuth ==
    \/ \E c \in Callbacks, g \in GoogleIds, e \in ProfileEmails : CbLookup(c, g, e)
    \/ \E c \in Callbacks, tok \in LoginInputs, p \in ProfileInputs :
          CbSave(c, tok, p.photo, p.displayName)
    \/ \E c \in Callbacks : CbDone(c)

SpecOAuth == Init /\ [][NextOAuth]_vars

\* Authenticated requests (the role route behind its admin gate) and one
\* Google login, interleaved at every await.
Next ==
    \/ \E r \in Requests, h \in IssuedHeaders : AuthVerify(r, h)
    \/ \E r \in Requests : AuthBind(r)
    \/ \E r \in Requests, t \in TargetInputs, ro \in RoleInputs : RoleCheck(r, t, ro)
    \/ \E r \in Requests : RoleSave(r)
    \/ \E r \in Requests : RoleRespond(r)
    \/ \E r \in Requests : ProfileRead(r)
    \/ \E r \in Requests, n \in NameInputs, b \in ProfileBodies :
          ProfileSave(r, n, b.birthday, b.gender)
    \/ \E r \in Requests : ProfileReload(r)
    \/ \E r \in Requests : ProfileRespond(r)
    \/ \E g \in GoogleIds, e \in ProfileEmails : CbLookup(1, g, e)
    \/ \E tok \in LoginInputs, p \in ProfileInputs : CbSave(1, tok, p.photo, p.displayName)
    \/ CbDone(1)

Spec == Init /\ [][Next]_vars

\* Requests with any Authorization header, through isAuthenticated and the
\* role controller, whoever the actor is.
NextAuth ==
    \/ \E r \in Requests, h \in AllHeaders : AuthVerify(r, h)
    \/ \E r \in Requests : AuthBind(r)
    \/ \E r \in Requests, t \in TargetInputs, ro \in RoleInputs : RoleCheck(r, t, ro)
    \/ \E r \in Requests : RoleSave(r)
    \/ \E r \in Requests : RoleRespond(r)

SpecAuth == Init /\ [][NextAuth]_vars

\* Requests of authenticated users to the role controller.
NextRole ==
    \/ \E r \in Requests, h \in IssuedHeaders : AuthVerify(r, h)
    \/ \E r \in Requests : AuthBind(r)
    \/ \E r \in Requests, t \in TargetInputs, ro \in RoleInputs : RoleCheck(r, t, ro)
    \/ \E r \in Requests : RoleSave(r)
    \/ \E r \in Requests : RoleRespond(r)

SpecRole == Init /\ [][NextRole]_vars

(***************************************************************************)
(* Properties.                                                             *)
(***************************************************************************)
BcryptPrefixes == {<<"$", "2", "a", "$">>, <<"$", "2", "b", "$">>, <<"$", "2", "y", "$">>}

HasBcryptPrefix(p) == \E pre \in BcryptPrefixes : StartsWith(p, pre)

\* C1: for every plaintext password P, the empty string and strings that
\* begin with a bcrypt prefix included, once hashPassword has run on a user
\* whose password was set to P, comparePassword(P) is true and the stored
\* password differs from P.
C1_EveryPasswordVerifies ==
    /\ cred.pc \in {"persisted", "compared"} =>
          /\ ComparePassword(cred.password, cred.plain)
          /\ cred.password # cred.plain
    /\ cred.pc = "compared" /\ cred.candidate = cred.plain => cred.result

\* C1, the failing case: a persisted P that begins with a bcrypt prefix.
C1_PrefixedStoredAsIs ==
    /\ cred.pc = "compared"
    /\ cred.candidate = cred.plain
    /\ HasBcryptPrefix(cred.plain)
    /\ cred.password = cred.plain
    /\ ~cred.result

\* Headers that carry no bearer token: no header, an empty one, another
\* scheme, or 'Bearer ' followed by nothing.
HeadersWithoutEnvelope ==
    { Some(<<"B", "a", "s", "i", "c">> \o Space \o TokU1),
      Some(<<"b", "e", "a", "r", "e", "r">> \o Space \o TokU1),
      Some(Bearer \o TokU1),
      Some(TokU1) }

HeadersWithEmptyToken ==
    { Some(Bearer \o Space), Some(Bearer \o Space \o Space \o TokU1) }

HeadersWithBadToken ==
    { Some(Bearer \o Space \o t) :
        t \in {TokNoId, TokEmptyId, TokExpired, TokBadSig, TokGarbage} }

FailedWith(q, kind) ==
    q.pc = "failed" /\ q.result = kind /\ q.forwarded = <<kind>>

\* C2 as claimed: an absent header fails with Unauthorized; a supplied
\* credential that is malformed (wrong envelope, bad signature, undecodable),
\* expired or without a non-empty userId fails with AuthTokenInvalid.
C2_WrongEnvelopeIsTokenInvalid ==
    \A r \in Requests :
        req[r].pc # "idle" =>
          /\ req[r].header = None => FailedWith(req[r], "Unauthorized")
          /\ req[r].header \in HeadersWithoutEnvelope \cup HeadersWithBadToken =>
                FailedWith(req[r], "AuthTokenInvalid")

\* C2 as amended: no header, an empty header, a header that does not start
\* with 'Bearer ' or one with an empty token after it fails with
\* Unauthorized; a 'Bearer <token>' header whose token is badly signed,
\* undecodable, expired or without a non-empty userId fails with
\* AuthTokenInvalid; neither kind is ever reported for the other class.
C2_ErrorKinds ==
    \A r \in Requests :
        req[r].pc # "idle" =>
          /\ req[r].header \in {None, Some(<<>>)} \cup HeadersWithoutEnvelope
                                \cup HeadersWithEmptyToken =>
                FailedWith(req[r], "Unauthorized")
          /\ req[r].header \in HeadersWithBadToken =>
                FailedWith(req[r], "AuthTokenInvalid")

\* C2: one request without a header and one with an expired token have both
\* been answered.
C2_Witness ==
    \E r1, r2 \in Requests :
        /\ req[r1].header = None /\ req[r1].result = "Unauthorized"
        /\ req[r2].header = Some(Bearer \o Space \o TokExpired)
        /\ req[r2].result = "AuthTokenInvalid"

\* The stored user a header's token names, read off the header directly.
UserNamedBy(header) ==
    IF header = Some(Bearer \o Space \o TokU1) THEN "u1"
    ELSE IF header = Some(Bearer \o Space \o TokU1 \o Space \o TokGarbage) THEN "u1"
    ELSE IF header = Some(Bearer \o Space \o TokU2) THEN "u2"
    ELSE "nobody"

InHandler(q) == q.pc \in {"authed", "roleFound", "roleSaved", "profileFound",
                          "profileSaved", "profileReloaded"}

C3_State(q) ==
    /\ q.pc \in {"idle", "authFound"} => q.forwarded = <<>> /\ q.user = None
    /\ q.pc = "failed" =>
          /\ Len(q.forwarded) = 1
          /\ q.forwarded[1] \in {"Unauthorized", "AuthTokenInvalid", "NotFound"}
          /\ q.user = None
          /\ q.header = Some(Bearer \o Space \o TokGone) => q.forwarded = <<"NotFound">>
    /\ InHandler(q) =>
          /\ q.forwarded = <<"next">>
          /\ q.user # None
          /\ q.user[1].userId = UserNamedBy(q.header)
          /\ \E i \in 1..Len(users) :
                /\ users[i].userId = q.user[1].userId
                /\ users[i].email = q.user[1].email
    /\ q.pc = "done" => q.forwarded = <<"next">>

\* C3: isAuthenticated calls next() without an error only after the token
\* was verified and req.user was set to the projection (userId, role, email,
\* name, isEmailVerified) of the user its findOne read from the store under
\* the token's userId; every failing path forwards exactly one error and
\* leaves req.user unset; a step of one request changes no other request.
C3_BindThenPass ==
    [][ /\ \A r \in Requests : C3_State(req[r])'
        /\ \A r \in Requests :
              /\ req[r].pc = "idle" /\ req'[r].pc = "authFound" =>
                    req'[r].ent = FindById(users, UserNamedBy(req'[r].header))
              /\ req[r].pc = "authFound" /\ req'[r].pc = "authed" =>
                    /\ req[r].ent # None
                    /\ req'[r].user =
                          Some([userId |-> req[r].ent[1].userId,
                                role |-> req[r].ent[1].role,
                                email |-> req[r].ent[1].email,
                                name |-> req[r].ent[1].name,
                                isEmailVerified |-> req[r].ent[1].isEmailVerified])
              /\ req[r].pc = "authFound" /\ req'[r].pc = "failed" => req[r].ent = None
              /\ req'[r].user # req[r].user =>
                    \/ req[r].pc = "authFound" /\ req'[r].pc = "authed"
                    \/ InHandler(req[r]) /\ req'[r].pc = "done"
              /\ req'[r] # req[r] => \A o \in Requests \ {r} : req'[o] = req[o]
      ]_vars

\* C3: one request was refused because its user does not exist while another
\* holds the identity of an administrator and is in its controller.
C3_Witness ==
    \E r1, r2 \in Requests :
        /\ req[r1].pc = "failed" /\ req[r1].result = "NotFound"
        /\ req[r2].pc = "roleFound" /\ req[r2].user # None
        /\ req[r2].user[1].role = ADMIN

GoogleLinks(user) ==
    {j \in 1..Len(user.oauthProviders) : user.oauthProviders[j].provider = GOOGLE}

\* C4: in every reachable state, whatever the interleaving of Google
\* callbacks, each user's oauthProviders holds at most one entry per
\* provider value.
C4_OneLinkPerProvider ==
    \A i \in 1..Len(users) :
        \A j, k \in 1..Len(users[i].oauthProviders) :
            users[i].oauthProviders[j].provider = users[i].oauthProviders[k].provider
               => j = k

\* C4: two callbacks for the same email both took the append branch (each
\* had read the user before the other saved) and both have saved.
C4_Witness ==
    \E c1, c2 \in Callbacks :
        /\ c1 # c2
        /\ cb[c1].pc = "done" /\ cb[c1].branch = "appended"
        /\ cb[c2].pc = "done" /\ cb[c2].branch = "appended"
        /\ cb[c1].email = cb[c2].email
        /\ cb[c1].googleId # cb[c2].googleId
        /\ \E i \in 1..Len(users) :
              users[i].email = cb[c1].email /\ Cardinality(GoogleLinks(users[i])) = 1

\* C5: under any interleaving of concurrent Google callbacks for the same
\* unseen email the store never holds two users with that email, at most one
\* callback's create branch persists a user, and from its lookup to its save
\* a callback runs as if isolated: the record it looked up is still what the
\* store holds for that email, so no save fails on the other's insert.
C5_IsolatedLinkOrCreate ==
    /\ \A i, j \in 1..Len(users) : users[i].email = users[j].email => i = j
    /\ \A c1, c2 \in Callbacks :
          /\ cb[c1].branch = "created" /\ cb[c1].result = "ok"
          /\ cb[c2].branch = "created" /\ cb[c2].result = "ok"
          /\ cb[c1].email = cb[c2].email
          => c1 = c2
    /\ \A c \in Callbacks :
          /\ cb[c].pc = "found" => cb[c].ent = FindByEmail(users, cb[c].email)
          /\ cb[c].result # "QueryFailed"

\* C5, the failing case: one callback created the user; the other, which had
\* looked the email up before, failed on the unique index.
C5_SecondCreateFails ==
    \E c1, c2 \in Callbacks :
        /\ cb[c1].branch = "created" /\ cb[c1].result = "ok"
        /\ cb[c2].branch = "created" /\ cb[c2].result = "QueryFailed"
        /\ cb[c1].email = cb[c2].email

\* The step in which callback c's save is executed successfully.
CbSaved(c) == cb[c].pc = "found" /\ cb'[c].pc = "saved"

\* The callback's lookup is still what the store holds: nothing was written
\* to that record between its lookup and its save.
NotInterleaved(c) == cb[c].ent = FindByEmail(users, cb[c].email)

\* C6: a successful callback with subject S and email E leaves the user with
\* email E holding exactly one google link, with providerId S: a new user of
\* role USER with that single link when E was unknown, a link appended when
\* the user had none for google, the stored providerId overwritten by S when
\* it differed.
C6_LinkHoldsSubject ==
    [][ \A c \in Callbacks :
          CbSaved(c) =>
            LET E == cb[c].email
                S == cb[c].googleId
                pre == FindByEmail(users, E)
                post == FindByEmail(users', E)
            IN  /\ post # None
                /\ Cardinality({i \in 1..Len(users') : users'[i].email = E}) = 1
                /\ Cardinality(GoogleLinks(post[1])) = 1
                /\ \A j \in GoogleLinks(post[1]) : post[1].oauthProviders[j].providerId = S
                /\ pre = None =>
                      /\ Len(users') = Len(users) + 1
                      /\ post[1].role = USER
                      /\ Len(post[1].oauthProviders) = 1
                      /\ \A i \in 1..Len(users) : users'[i] = users[i]
                /\ pre # None /\ NotInterleaved(c) =>
                      /\ Len(users') = Len(users)
                      /\ post[1].userId = pre[1].userId
                      /\ post[1].role = pre[1].role
                      /\ GoogleLinks(pre[1]) = {} =>
                            /\ Len(post[1].oauthProviders) = Len(pre[1].oauthProviders) + 1
                            /\ SubSeq(post[1].oauthProviders, 1, Len(pre[1].oauthProviders))
                                  = pre[1].oauthProviders
                      /\ GoogleLinks(pre[1]) # {} =>
                            Len(post[1].oauthProviders) = Len(pre[1].oauthProviders)
      ]_vars

\* C6: a user who was linked under g123 logged in again under g456 and the
\* stored providerId is now g456.
C6_Witness ==
    \E c1, c2 \in Callbacks :
        /\ cb[c1].pc = "done" /\ cb[c1].branch \in {"appended", "created"}
        /\ cb[c1].googleId = "g123"
        /\ cb[c2].pc = "done" /\ cb[c2].branch = "refreshed" /\ cb[c2].googleId = "g456"
        /\ cb[c1].email = cb[c2].email
        /\ \E i \in 1..Len(users) :
              /\ users[i].email = cb[c1].email
              /\ Len(users[i].oauthProviders) = 1
              /\ users[i].oauthProviders[1].providerId = "g456"

\* The second of two logins with the same (google, S, E): the stored user
\* with email E already holds a google link with providerId S, and nothing
\* was written to it since this callback looked it up.
RepeatedLogin(c) ==
    /\ CbSaved(c)
    /\ cb[c].ent # None
    /\ NotInterleaved(c)
    /\ \E j \in GoogleLinks(cb[c].ent[1]) :
          cb[c].ent[1].oauthProviders[j].providerId = cb[c].googleId

\* What a repeated login leaves alone in the row of its user, the avatar
\* aside: the number of users, every other row, and the row's userId, email,
\* name, role, isEmailVerified, its links' providers and providerIds and
\* every link of another provider.
RepeatedLoginFrame(c) ==
    LET pre == cb[c].ent[1]
        post == FindByEmail(users', cb[c].email)
    IN  /\ Len(users') = Len(users)
        /\ \A i \in 1..Len(users) : users[i].email # cb[c].email => users'[i] = users[i]
        /\ post # None
        /\ post[1].userId = pre.userId
        /\ post[1].email = pre.email
        /\ post[1].name = pre.name
        /\ post[1].role = pre.role
        /\ post[1].isEmailVerified = pre.isEmailVerified
        /\ Len(post[1].oauthProviders) = Len(pre.oauthProviders)
        /\ Cardinality(GoogleLinks(post[1])) = 1
        /\ \A j \in 1..Len(pre.oauthProviders) :
              /\ post[1].oauthProviders[j].provider = pre.oauthProviders[j].provider
              /\ post[1].oauthProviders[j].providerId = pre.oauthProviders[j].providerId
              /\ pre.oauthProviders[j].provider # GOOGLE =>
                    post[1].oauthProviders[j] = pre.oauthProviders[j]

\* C7 as claimed: the second of two logins with the same (provider,
\* providerId, email) changes only the link's token material; the number of
\* users and the user's userId, email, role, avatar, isEmailVerified,
\* providerId and other links stay as they were.
C7_OnlyTokenMaterialChanges ==
    [][ \A c \in Callbacks :
          RepeatedLogin(c) =>
            /\ RepeatedLoginFrame(c)
            /\ FindByEmail(users', cb[c].email)[1].avatar = cb[c].ent[1].avatar
      ]_vars

\* C7 as amended: the second login changes only the link's token material
\* and, when the user's avatar was still empty and this login's profile
\* carries a photo, the avatar; a set avatar is never replaced.
C7_TokenMaterialAndEmptyAvatar ==
    [][ \A c \in Callbacks :
          RepeatedLogin(c) =>
            /\ RepeatedLoginFrame(c)
            /\ \/ FindByEmail(users', cb[c].email)[1].avatar = cb[c].ent[1].avatar
               \/ /\ ~Truthy(cb[c].ent[1].avatar)
                  /\ FindByEmail(users', cb[c].email)[1].avatar \in
                        {p.photo : p \in ProfileInputs} \ {Undefined}
      ]_vars

\* C7: the same subject logged in twice for the same email, the second time
\* through the refresh branch, and the link carries the second login's token.
C7_Witness ==
    \E c1, c2 \in Callbacks :
        /\ c1 # c2
        /\ cb[c1].pc = "done" /\ cb[c1].result = "ok" /\ cb[c1].branch # "refreshed"
        /\ cb[c2].pc = "done" /\ cb[c2].branch = "refreshed"
        /\ cb[c1].email = cb[c2].email /\ cb[c1].googleId = cb[c2].googleId
        /\ \E i \in 1..Len(users) :
              /\ users[i].email = cb[c1].email
              /\ users[i].updatedAt >= 1
              /\ Len(users[i].oauthProviders) = 1
              /\ users[i].oauthProviders[1].accessToken = "at2"

\* C8: after every successful callback for email E, whichever branch it
\* took, the stored user with email E has isEmailVerified = TRUE; and in
\* every reachable state a user holding a google link is verified.
C8_GoogleUserVerified ==
    [][ /\ \A c \in Callbacks :
              CbSaved(c) => \A i \in 1..Len(users') :
                               users'[i].email = cb[c].email => users'[i].isEmailVerified
        /\ \A i \in 1..Len(users') :
              GoogleLinks(users'[i]) # {} => users'[i].isEmailVerified
      ]_vars

\* C8: an account registered without verification was linked by one login
\* and refreshed by another, and is verified.
C8_Witness ==
    \E c1, c2 \in Callbacks :
        /\ cb[c1].pc = "done" /\ cb[c1].branch = "appended"
        /\ cb[c2].pc = "done" /\ cb[c2].branch = "refreshed"
        /\ cb[c1].email = EmailA /\ cb[c2].email = EmailA
        /\ users[1].email = EmailA
        /\ users[1].isEmailVerified
        /\ GoogleLinks(users[1]) # {}

\* C9: a stored role changes only as the effect of an updateUserRole request
\* for that user and that new role; no OAuth callback and no profile update,
\* even one saving an entity read before a concurrent role change completed,
\* changes or reverts a stored role.
C9_RoleOnlyByRoleGuard ==
    [][ \A i \in 1..Len(users) :
          users'[i].role # users[i].role =>
            \E r \in Requests :
                /\ req[r].pc = "roleFound"
                /\ req'[r].pc = "roleSaved"
                /\ req[r].target = users[i].userId
                /\ users'[i].role = req[r].role
      ]_vars

\* C10: updateUserRole by an actor on itself with newRole USER, and
\* updateUserRole with an unrecognised or empty role, fail with DataInvalid
\* before any repository call: no findOne, no save, the store as it was.
C10_RejectedBeforeLookup ==
    [][ \A r \in Requests :
          LET rejected(q, actor) ==
                \/ q.target = actor /\ q.role = USER
                \/ q.role \notin {USER, ADMIN}
          IN  /\ req'[r].pc = "roleFound" => ~rejected(req'[r], req'[r].user[1].userId)
              /\ /\ req[r].pc = "authed"
                 /\ req'[r].pc = "done"
                 /\ rejected(req'[r], req[r].user[1].userId)
                 => /\ req'[r].result = "DataInvalid"
                    /\ req'[r].ops = <<>>
                    /\ req'[r].ent = None
                    /\ users' = users
      ]_vars

\* C10: an administrator asked to make itself a plain user and was refused.
C10_Witness ==
    \E r \in Requests :
        /\ req[r].pc = "done"
        /\ req[r].header = Some(Bearer \o Space \o TokU1)
        /\ req[r].target = "u1"
        /\ req[r].role = USER
        /\ req[r].result = "DataInvalid"
        /\ users[1].role = ADMIN

\* The step in which request r's updateUserRole, having found its target,
\* answers 'unchanged' or issues its save.
RoleAnswered(r) ==
    /\ req[r].pc = "roleFound" /\ req[r].ent # None
    /\ req'[r].pc \in {"done", "roleSaved"}

\* The stored row of request r's target, before the step.
StoredTarget(r) == FindById(users, req[r].target)

\* C11: updateUserRole on an existing target whose role, as read, already
\* equals newRole succeeds with the 'unchanged' result and issues no save:
\* the whole store, update timestamps included, is the same before and after
\* the step.  A save is issued only when the role read differs from newRole,
\* and the store changes only when the stored role differs from newRole; the
\* row then holds newRole and a later update timestamp.
C11_UnchangedIssuesNoWrite ==
    [][/\ \A r \in Requests :
          RoleAnswered(r) =>
              LET e == req[r].ent[1] IN
              /\ e.role = req[r].role =>
                    /\ req'[r].pc = "done"
                    /\ req'[r].result = "unchanged"
                    /\ req'[r].ops = <<"findOne">>
                    /\ users' = users
              /\ e.role # req[r].role =>
                    /\ req'[r].pc = "roleSaved"
                    /\ req'[r].ops = <<"findOne", "save">>
              /\ users' # users =>
                    /\ StoredTarget(r)[1].role # req[r].role
                    /\ FindById(users', req[r].target)[1].role = req[r].role
                    /\ FindById(users', req[r].target)[1].updatedAt
                          > StoredTarget(r)[1].updatedAt
                    /\ \A i \in 1..Len(users) :
                          users[i].userId # req[r].target => users'[i] = users[i]
       /\ \A r \in Requests :
             req[r].pc = "roleSaved" /\ req'[r].pc = "done" =>
                 /\ req'[r].result = "updated"
                 /\ req'[r].ops = <<"findOne", "save">>
                 /\ users' = users
    ]_vars

\* C11: administrator u2 asked to make u1, already an administrator, an
\* administrator; the answer was 'unchanged' after a findOne and no save, and
\* u1's row still carries its first update timestamp.
C11_Witness ==
    \E r \in Requests :
        /\ req[r].pc = "done"
        /\ req[r].header = Some(Bearer \o Space \o TokU2)
        /\ req[r].target = "u1"
        /\ req[r].role = ADMIN
        /\ req[r].result = "unchanged"
        /\ req[r].ops = <<"findOne">>
        /\ users[1].role = ADMIN
        /\ users[1].updatedAt = 0
        /\ users[2].role = ADMIN

\* Every updateUserRole request so far came from an actor whose identity,
\* as bound by isAuthenticated, was an administrator's.
OnlyAdminsAsked == \A r \in Requests : req[r].actor \in {"", ADMIN}

\* C12: starting with an administrator in the store, and with every
\* updateUserRole request issued by an actor whose bound identity was an
\* administrator's, every reachable state holds at least one administrator,
\* under any sequence and interleaving of updateUserRole requests.
C12_AlwaysSomeAdmin ==
    OnlyAdminsAsked => \E i \in 1..Len(users) : users[i].role = ADMIN

\* C12, the failing case: two administrators, each bound as one, have each
\* made the other a plain user, and no administrator is left.
C12_MutualDemotion ==
    /\ \A i \in 1..Len(users) : users[i].role = USER
    /\ \E r1, r2 \in Requests :
          /\ req[r1].header = Some(Bearer \o Space \o TokU1)
          /\ req[r1].target = "u2" /\ req[r1].role = USER
          /\ req[r1].actor = ADMIN /\ req[r1].result = "updated"
          /\ req[r2].header = Some(Bearer \o Space \o TokU2)
          /\ req[r2].target = "u1" /\ req[r2].role = USER
          /\ req[r2].actor = ADMIN /\ req[r2].result = "updated"

==========================================================================
